---- MODULE Spec2Model ----
(***************************************************************************)
(* Model of aws_collect.py: AWSResourceHierarchy (the inventory builder).  *)
(*                                                                         *)
(* The builder is sequential. One build_hierarchy call is modelled as a    *)
(* chain of steps (call entry / region start / one VPC / region-wide step  *)
(* / return) so that the points where an exception can leave a region      *)
(* half built are states of the model. The provider (boto3 clients) is a   *)
(* fixture: fixed data per region plus injected failures. Every provider   *)
(* call can fail with a botocore ClientError or with some other Exception  *)
(* (for example a connection error, which is not a ClientError).           *)
(* Logging is not modelled.                                                *)
(***************************************************************************)
EXTENDS Integers, Sequences, FiniteSets, TLC

(* ------------------------------ bounds -------------------------------- *)
MaxFaults == 1      \* injected provider failures per run
MaxCalls  == 2      \* build_hierarchy calls on one builder
MaxMounts == 2      \* mount targets of the varied EFS file system
MaxGroups == 2      \* DB subnet groups returned by the provider
MaxPages  == 3      \* pages of one paginated listing
MaxPageLen == 2     \* items on one page

(* --------------------------- basic values ----------------------------- *)
None == "None"
EmptyDict == [x \in {} |-> x]
NoArg == "-"

EXCLUDABLE_RESOURCES == {"ec2", "rds", "efs", "fsx", "redshift", "dynamodb"}

Kinds == {"ClientError", "Exception"}

Put(f, k, v) == [x \in (DOMAIN f) \cup {k} |-> IF x = k THEN v ELSE f[x]]

SeqsUpTo(S, n) == UNION {[1..k -> S] : k \in 0..n}

Range(s) == {s[i] : i \in DOMAIN s}

RECURSIVE Flatten(_)
Flatten(ss) == IF ss = <<>> THEN <<>> ELSE Head(ss) \o Flatten(Tail(ss))

(* ------------------- sequential execution with raise ------------------ *)
\* A call result: whether it raised, its value, the provider calls made.
Ok(v, c) == [raised |-> FALSE, val |-> v, calls |-> c]
Raised(c) == [raised |-> TRUE, val |-> <<>>, calls |-> c]
NotRun == [raised |-> FALSE, val |-> <<>>, calls |-> {}]

\* parts are the results of statements executed in order; the first one
\* that raises ends the execution: later statements make no call.
FirstRaise(parts) ==
    IF \E i \in DOMAIN parts : parts[i].raised
    THEN CHOOSE i \in DOMAIN parts :
            parts[i].raised /\ \A j \in 1..(i-1) : ~parts[j].raised
    ELSE 0

Executed(parts) ==
    IF FirstRaise(parts) = 0 THEN DOMAIN parts ELSE 1..FirstRaise(parts)

CallsOf(parts) == UNION {parts[i].calls : i \in Executed(parts)}

AnyRaised(parts) == FirstRaise(parts) # 0

(* ------------------------- provider fixture --------------------------- *)
Regions == {"r1", "r2"}
VpcIds == {"v1", "v2"}
GroupNames == {"g1", "g2"}

\* describe_regions
DiscoveredRegions == <<"r1", "r2">>

RegionLists == {<<>>, <<"r1">>, <<"r2">>, <<"r1", "r2">>, <<"r2", "r1">>}

\* The varied part of the provider data (region r1).
FixtureProv ==
    [mounts  |-> <<"v2", "v1">>,
     groups  |-> <<[DBSubnetGroupName |-> "g1", VpcId |-> "v1"],
                   [DBSubnetGroupName |-> "g2", VpcId |-> "v2"]>>,
     dbGroup |-> "g1"]

ProvChoices ==
    [mounts  : SeqsUpTo(VpcIds, MaxMounts),
     groups  : SeqsUpTo([DBSubnetGroupName : GroupNames, VpcId : VpcIds], MaxGroups),
     dbGroup : GroupNames \cup {None}]

ProvVpcs(r) ==
    IF r = "r1" THEN <<[VpcId |-> "v1"], [VpcId |-> "v2"]>>
    ELSE <<[VpcId |-> "v1"]>>

\* Instances with their block device mappings (Ebs volume id, or None for
\* a mapping that is not EBS backed).
ProvInstances(r) ==
    IF r = "r1"
    THEN <<[InstanceId |-> "i1", VpcId |-> "v1",
            BlockDeviceMappings |-> <<"vol1", None, "vol2">>]>>
    ELSE <<>>

\* describe_volumes(VolumeIds=[v]) -> Volumes
ProvVolumes(v) ==
    IF v = "vol1" THEN <<[Size |-> 8]>> ELSE <<>>

ProvDbInstances(r, p) ==
    IF r = "r1"
    THEN <<[DBInstanceIdentifier |-> "db1", DBSubnetGroupName |-> p.dbGroup]>>
    ELSE <<>>

ProvDbClusters(r) ==
    IF r = "r1"
    THEN <<[DBClusterIdentifier |-> "c1", DBSubnetGroup |-> "g2"]>>
    ELSE <<>>

ProvSubnetGroups(r, p) == IF r = "r1" THEN p.groups ELSE <<>>

ProvEfs(r) == IF r = "r1" THEN <<"fs1", "fs2">> ELSE <<>>

\* describe_mount_targets(FileSystemId=fs) -> VpcId of each mount target
ProvMountTargets(fs, p) == IF fs = "fs1" THEN p.mounts ELSE <<"v2">>

ProvFsx(r) ==
    IF r = "r1" THEN <<[FileSystemId |-> "fx1", VpcId |-> "v1"]>> ELSE <<>>

ProvRedshift(r) ==
    IF r = "r1" THEN <<[ClusterIdentifier |-> "rs1", VpcId |-> "v2"]>> ELSE <<>>

ProvTables(r) == IF r = "r1" THEN <<"t1", "t2">> ELSE <<>>

\* describe_table: t2 carries no BillingModeSummary
ProvTable(t) ==
    IF t = "t1" THEN [TableStatus |-> "ACTIVE", BillingMode |-> "PAY_PER_REQUEST"]
    ELSE [TableStatus |-> "ACTIVE", BillingMode |-> None]

ProvSubnets(r, v) == IF r = "r1" /\ v = "v1" THEN <<"sn1">> ELSE <<>>
ProvSecurityGroups(r, v) == IF r = "r1" /\ v = "v1" THEN <<"sg1">> ELSE <<>>

\* Server-side filter on vpc-id
FilterVpc(items, v) == SelectSeq(items, LAMBDA x : x.VpcId = v)

\* The provider splits a listing in pages of one item (an empty listing is
\* one empty page).
Pages(items) ==
    IF items = <<>> THEN << <<>> >> ELSE [i \in 1..Len(items) |-> <<items[i]>>]

(* ------------------------------ faults -------------------------------- *)
NoFault == [site |-> "none", item |-> NoArg, kind |-> "none"]

ListSites == {"ec2.describe_vpcs", "rds.describe_db_subnet_groups",
              "ec2.describe_instances", "rds.describe_db_instances",
              "rds.describe_db_clusters", "efs.describe_file_systems",
              "fsx.describe_file_systems", "redshift.describe_clusters",
              "ec2.describe_subnets", "ec2.describe_route_tables",
              "ec2.describe_internet_gateways", "ec2.describe_nat_gateways",
              "ec2.describe_security_groups", "dynamodb.list_tables"}

ItemSites == ({"ec2.describe_volumes"} \X {"vol1", "vol2"})
             \cup ({"efs.describe_mount_targets"} \X {"fs1", "fs2"})
             \cup ({"dynamodb.describe_table"} \X {"t1", "t2"})

CallSites == (ListSites \X {NoArg}) \cup ItemSites
             \cup {<<"boto3.client", NoArg>>, <<"ec2.describe_regions", NoArg>>}

Faults == {[site |-> c[1], item |-> c[2], kind |-> k] : c \in CallSites, k \in Kinds}

Hits(f, site, item) == f.site = site /\ f.item = item

\* The provider methods of each excludable category
CategoryMethods(c) ==
    CASE c = "ec2" -> {"ec2.describe_instances", "ec2.describe_volumes"}
      [] c = "rds" -> {"rds.describe_db_subnet_groups", "rds.describe_db_instances",
                       "rds.describe_db_clusters"}
      [] c = "efs" -> {"efs.describe_file_systems", "efs.describe_mount_targets"}
      [] c = "fsx" -> {"fsx.describe_file_systems"}
      [] c = "redshift" -> {"redshift.describe_clusters"}
      [] c = "dynamodb" -> {"dynamodb.list_tables", "dynamodb.describe_table"}

CategoryKey(c) ==
    CASE c = "ec2" -> "ec2_instances"
      [] c = "rds" -> "rds_instances"
      [] c = "efs" -> "efs_filesystems"
      [] c = "fsx" -> "fsx_filesystems"
      [] c = "redshift" -> "redshift_clusters"
      [] c = "dynamodb" -> "dynamodb_tables"

(* ----------------------- _get_paginated_results ----------------------- *)
\* The for loop over the page iterator. failAt is the page whose fetch
\* fails (0: none). A ClientError is caught and [] returned; any other
\* exception propagates.
RECURSIVE PageLoop(_, _, _, _, _)
PageLoop(pages, k, results, failAt, kind) ==
    IF k > Len(pages) THEN [raised |-> FALSE, val |-> results]
    ELSE IF k = failAt
         THEN IF kind = "ClientError"
              THEN [raised |-> FALSE, val |-> <<>>]
              ELSE [raised |-> TRUE, val |-> <<>>]
         ELSE PageLoop(pages, k + 1, results \o pages[k], failAt, kind)

GetPaginatedResults(pages, failAt, kind) == PageLoop(pages, 1, <<>>, failAt, kind)

\* A listing call of the builder: method site over the provider's items.
\* An injected failure hits the fetch of the last page.
Listing(site, items, f) ==
    LET pages == Pages(items)
        res == GetPaginatedResults(pages,
                                   IF Hits(f, site, NoArg) THEN Len(pages) ELSE 0,
                                   f.kind)
    IN [raised |-> res.raised, val |-> res.val, calls |-> {<<site, NoArg>>}]


\* Statements executed in order, collected in a list (a loop that appends
\* one value per iteration, or raises out of the loop).
Sequentially(parts) ==
    IF AnyRaised(parts) THEN Raised(CallsOf(parts))
    ELSE Ok([i \in DOMAIN parts |-> parts[i].val], CallsOf(parts))

(* -------------------------------- EC2 --------------------------------- *)
GetVolumeDetails(volume_id, f) ==
    LET c == {<<"ec2.describe_volumes", volume_id>>} IN
    IF Hits(f, "ec2.describe_volumes", volume_id)
    THEN IF f.kind = "ClientError" THEN Ok(EmptyDict, c) ELSE Raised(c)
    ELSE LET volumes == ProvVolumes(volume_id) IN
         IF Len(volumes) = 0 THEN Ok(EmptyDict, c)
         ELSE Ok([size |-> volumes[1].Size], c)

\* One instance of the listing: the loop over its block device mappings.
InstanceWithEbs(instance, f) ==
    LET bds == instance.BlockDeviceMappings
        lookups == [i \in DOMAIN bds |->
                       IF bds[i] # None THEN GetVolumeDetails(bds[i], f) ELSE NotRun]
        idx == SelectSeq([i \in DOMAIN bds |-> i], LAMBDA i : bds[i] # None)
    IN IF AnyRaised(lookups) THEN Raised(CallsOf(lookups))
       ELSE Ok([instance_id |-> instance.InstanceId,
                ebs_volumes |-> [k \in DOMAIN idx |->
                                    [volume_id |-> bds[idx[k]],
                                     volume_details |-> lookups[idx[k]].val]]],
               CallsOf(lookups))

GetEc2WithEbs(r, vpc_id, f) ==
    LET reservations == Listing("ec2.describe_instances",
                                FilterVpc(ProvInstances(r), vpc_id), f)
    IN IF reservations.raised THEN reservations
       ELSE LET items == reservations.val
                body == Sequentially([i \in DOMAIN items |-> InstanceWithEbs(items[i], f)])
            IN [body EXCEPT !.calls = @ \cup reservations.calls]

(* -------------------------------- RDS --------------------------------- *)
\* {sg['DBSubnetGroupName']: sg['VpcId'] for sg in subnet_groups}: a later
\* group of the same name replaces an earlier one.
DictOfGroups(groups) ==
    [n \in {groups[i].DBSubnetGroupName : i \in DOMAIN groups} |->
        groups[CHOOSE i \in DOMAIN groups :
                  /\ groups[i].DBSubnetGroupName = n
                  /\ \A j \in DOMAIN groups :
                        groups[j].DBSubnetGroupName = n => j <= i].VpcId]

DictGet(d, k) == IF k \in DOMAIN d THEN d[k] ELSE None

GetDbSubnetGroups(r, p, f) ==
    LET subnet_groups == Listing("rds.describe_db_subnet_groups", ProvSubnetGroups(r, p), f)
    IN IF subnet_groups.raised THEN subnet_groups
       ELSE [subnet_groups EXCEPT !.val = DictOfGroups(@)]

\* Membership by the mere presence of the subnet group in the table
RdsMemberBug(db_subnet_groups, subnet_group_name, vpc_id) ==
    subnet_group_name \in DOMAIN db_subnet_groups

RdsMember(db_subnet_groups, subnet_group_name, vpc_id) ==
    DictGet(db_subnet_groups, subnet_group_name) = vpc_id

GetRdsResources(r, vpc_id, db_subnet_groups, p, f) ==
    LET db_instances == Listing("rds.describe_db_instances", ProvDbInstances(r, p), f)
        clusters == Listing("rds.describe_db_clusters", ProvDbClusters(r), f)
        parts == <<db_instances, clusters>>
        mine == SelectSeq(db_instances.val,
                    LAMBDA db : RdsMember(db_subnet_groups, db.DBSubnetGroupName, vpc_id))
        mineCl == SelectSeq(clusters.val,
                    LAMBDA cl : RdsMember(db_subnet_groups, cl.DBSubnetGroup, vpc_id))
    IN IF AnyRaised(parts) THEN Raised(CallsOf(parts))
       ELSE Ok([db_instances |-> [i \in DOMAIN mine |->
                                     [db_instance_id |-> mine[i].DBInstanceIdentifier]],
                clusters |-> [i \in DOMAIN mineCl |->
                                 [cluster_id |-> mineCl[i].DBClusterIdentifier]]],
               CallsOf(parts))

(* -------------------------------- EFS --------------------------------- *)
\* The loop over the mount targets without its break
RECURSIVE MountLoopNoBreak(_, _, _, _)
MountLoopNoBreak(fs_id, mount_targets, k, vpc_id) ==
    IF k > Len(mount_targets) THEN <<>>
    ELSE (IF mount_targets[k] = vpc_id THEN <<[file_system_id |-> fs_id]>> ELSE <<>>)
         \o MountLoopNoBreak(fs_id, mount_targets, k + 1, vpc_id)

\* for mt in mount_targets: if mt.get('VpcId') == vpc_id: append; break
RECURSIVE MountLoop(_, _, _, _)
MountLoop(fs_id, mount_targets, k, vpc_id) ==
    IF k > Len(mount_targets) THEN <<>>
    ELSE IF mount_targets[k] = vpc_id THEN <<[file_system_id |-> fs_id]>>
         ELSE MountLoop(fs_id, mount_targets, k + 1, vpc_id)

\* One file system of the listing: the try block around its mount targets.
EfsOfFileSystem(fs_id, vpc_id, p, f) ==
    LET c == {<<"efs.describe_mount_targets", fs_id>>} IN
    IF Hits(f, "efs.describe_mount_targets", fs_id)
    THEN IF f.kind = "ClientError" THEN Ok(<<>>, c) ELSE Raised(c)
    ELSE Ok(MountLoop(fs_id, ProvMountTargets(fs_id, p), 1, vpc_id), c)

GetEfsResources(r, vpc_id, p, f) ==
    LET filesystems == Listing("efs.describe_file_systems", ProvEfs(r), f)
    IN IF filesystems.raised THEN filesystems
       ELSE LET items == filesystems.val
                body == Sequentially([i \in DOMAIN items |->
                                         EfsOfFileSystem(items[i], vpc_id, p, f)])
            IN IF body.raised THEN Raised(body.calls \cup filesystems.calls)
               ELSE Ok(Flatten(body.val), body.calls \cup filesystems.calls)

(* --------------------------- FSx, Redshift ---------------------------- *)
\* A filter that keeps every file system
FsxMemberBug(fs, vpc_id) == TRUE

FsxMember(fs, vpc_id) == fs.VpcId = vpc_id

GetFsxResources(r, vpc_id, f) ==
    LET filesystems == Listing("fsx.describe_file_systems", ProvFsx(r), f)
        mine == SelectSeq(filesystems.val, LAMBDA fs : FsxMember(fs, vpc_id))
    IN IF filesystems.raised THEN filesystems
       ELSE Ok([i \in DOMAIN mine |-> [file_system_id |-> mine[i].FileSystemId]],
               filesystems.calls)

GetRedshiftResources(r, vpc_id, f) ==
    LET clusters == Listing("redshift.describe_clusters", ProvRedshift(r), f)
        mine == SelectSeq(clusters.val, LAMBDA cl : cl.VpcId = vpc_id)
    IN IF clusters.raised THEN clusters
       ELSE Ok([clusters |-> [i \in DOMAIN mine |->
                                 [cluster_identifier |-> mine[i].ClusterIdentifier]]],
               clusters.calls)

(* ------------------- network components, security groups -------------- *)
GetNetworkComponents(r, vpc_id, f) ==
    LET parts == <<Listing("ec2.describe_subnets", ProvSubnets(r, vpc_id), f),
                   Listing("ec2.describe_route_tables", <<>>, f),
                   Listing("ec2.describe_internet_gateways", <<>>, f),
                   Listing("ec2.describe_nat_gateways", <<>>, f)>>
    IN IF AnyRaised(parts) THEN Raised(CallsOf(parts))
       ELSE Ok([subnets |-> parts[1].val, route_tables |-> parts[2].val,
                internet_gateways |-> parts[3].val, nat_gateways |-> parts[4].val],
               CallsOf(parts))

GetSecurityGroups(r, vpc_id, f) ==
    Listing("ec2.describe_security_groups", ProvSecurityGroups(r, vpc_id), f)

(* ------------------------------ DynamoDB ------------------------------ *)
\* One table name of the listing: the try block around describe_table.
DynamoOfTable(table_name, f) ==
    LET c == {<<"dynamodb.describe_table", table_name>>} IN
    IF Hits(f, "dynamodb.describe_table", table_name)
    THEN IF f.kind = "ClientError" THEN Ok(<<>>, c) ELSE Raised(c)
    ELSE LET table_details == ProvTable(table_name) IN
         Ok(<<[table_name |-> table_name,
               table_status |-> table_details.TableStatus,
               billing_mode |-> IF table_details.BillingMode = None THEN "PROVISIONED"
                                ELSE table_details.BillingMode]>>, c)

GetDynamodbTables(r, f) ==
    LET table_names == Listing("dynamodb.list_tables", ProvTables(r), f)
    IN IF table_names.raised THEN table_names
       ELSE LET items == table_names.val
                body == Sequentially([i \in DOMAIN items |-> DynamoOfTable(items[i], f)])
            IN IF body.raised THEN Raised(body.calls \cup table_names.calls)
               ELSE Ok(Flatten(body.val), body.calls \cup table_names.calls)


(* ----------------------------- the builder ---------------------------- *)
VARIABLES
    excluded,           \* self.excluded_resources
    hierarchy,          \* self.hierarchy: region -> (vpc id or 'region_wide') -> entry
    pc,                 \* position of the running build_hierarchy call
    todo,               \* regions the for loop of build_hierarchy has still to visit
    region,             \* region being built by _build_region_hierarchy
    vpcs,               \* VPCs the for loop of _build_region_hierarchy has still to visit
    db_subnet_groups,   \* the name -> VPC id table of the region being built
    prov,               \* the provider's data (fixture)
    faultsLeft,         \* failures the provider may still inject
    callsLeft,          \* build_hierarchy calls still to come
    invoked,            \* provider methods called so far (the fixture's call counter)
    faultLog,           \* the failures injected so far
    failed,             \* regions whose build ended in an except clause, this call
    built,              \* VPC ids whose entry was written in the current region pass
    cur,                \* the running call: its regions and how discovery went
    returned,           \* what each finished call gave its caller
    pg                  \* a _get_paginated_results call on its own

vars == <<excluded, hierarchy, pc, todo, region, vpcs, db_subnet_groups, prov,
          faultsLeft, callsLeft, invoked, faultLog, failed, built, cur, returned, pg>>

PgIdle == [state |-> "idle"]

HGet(h, r) == IF r \in DOMAIN h THEN h[r] ELSE EmptyDict

CallNo == Len(returned) + 1

Methods(calls) == {c[1] : c \in calls}

\* A gate that forgets the dynamodb exclusion
WantedBug(category, excl) == category = "dynamodb" \/ category \notin excl

\* if '<category>' not in self.excluded_resources
Wanted(category, excl) == category \notin excl

VpcCategories == <<"ec2", "rds", "efs", "fsx", "redshift">>

\* The body of the for loop over the VPCs, up to the assignment of the entry.
BuildVpc(r, vpc, table, excl, p, f) ==
    LET vpc_id == vpc.VpcId
        parts == <<IF Wanted("ec2", excl) THEN GetEc2WithEbs(r, vpc_id, f) ELSE NotRun,
                   IF Wanted("rds", excl) THEN GetRdsResources(r, vpc_id, table, p, f)
                                          ELSE NotRun,
                   IF Wanted("efs", excl) THEN GetEfsResources(r, vpc_id, p, f) ELSE NotRun,
                   IF Wanted("fsx", excl) THEN GetFsxResources(r, vpc_id, f) ELSE NotRun,
                   IF Wanted("redshift", excl) THEN GetRedshiftResources(r, vpc_id, f)
                                               ELSE NotRun,
                   GetNetworkComponents(r, vpc_id, f),
                   GetSecurityGroups(r, vpc_id, f)>>
        cats == {i \in DOMAIN VpcCategories : Wanted(VpcCategories[i], excl)}
        resources == [k \in {CategoryKey(VpcCategories[i]) : i \in cats} |->
                         parts[CHOOSE i \in cats : CategoryKey(VpcCategories[i]) = k].val]
    IN IF AnyRaised(parts) THEN Raised(CallsOf(parts))
       ELSE Ok([vpc_info |-> vpc,
                network_components |-> parts[6].val,
                security_groups |-> parts[7].val,
                resources |-> resources],
               CallsOf(parts))

\* boto3.client(...) of a region
Clients(f) ==
    LET c == {<<"boto3.client", NoArg>>} IN
    IF Hits(f, "boto3.client", NoArg) THEN Raised(c) ELSE Ok(<<>>, c)

\* The statements of _build_region_hierarchy before the loop over the VPCs.
StartRegion(r, excl, p, f) ==
    LET parts == <<Clients(f),
                   Listing("ec2.describe_vpcs", ProvVpcs(r), f),
                   IF Wanted("rds", excl) THEN GetDbSubnetGroups(r, p, f)
                   ELSE [NotRun EXCEPT !.val = EmptyDict]>>
    IN IF AnyRaised(parts) THEN Raised(CallsOf(parts))
       ELSE Ok([vpcs |-> parts[2].val, db_subnet_groups |-> parts[3].val], CallsOf(parts))

\* A region failure that ends the whole loop
AfterFailureAbort(rest) == <<>>

\* The for loop of build_hierarchy after a region whose build ended in an
\* except clause: the exception is swallowed, the loop goes on.
AfterFailure(rest) == rest

\* The failure f happens during this step: it is one the provider may still
\* inject and the step makes the call it is about.
Injected(f, res) ==
    f = NoFault \/ (faultsLeft > 0 /\ <<f.site, f.item>> \in res.calls)

Logged(f, res, vpc_id) ==
    IF f = NoFault THEN faultLog
    ELSE faultLog \cup {[call |-> CallNo, region |-> Head(todo), vpc |-> vpc_id,
                         site |-> f.site, item |-> f.item, kind |-> f.kind,
                         escaped |-> res.raised]}

Spent(f) == IF f = NoFault THEN faultsLeft ELSE faultsLeft - 1

SitesOf(names) == {NoFault} \cup {f \in Faults : f.site \in names}

Finished(status) ==
    [status |-> status, regions |-> cur.regions, discovery |-> cur.discovery,
     failed |-> failed, keys |-> DOMAIN hierarchy, snap |-> hierarchy]

\* build_hierarchy(regions), up to the for loop: discovery when no region
\* is given. A ClientError of the discovery returns {}; any other exception
\* leaves build_hierarchy.
BuildHierarchy ==
    /\ pc = "idle"
    /\ callsLeft > 0
    /\ callsLeft' = callsLeft - 1
    /\ \E regions \in RegionLists, f \in SitesOf({"ec2.describe_regions"}) :
          /\ f = NoFault \/ (faultsLeft > 0 /\ regions = <<>>)
          /\ faultsLeft' = Spent(f)
          /\ invoked' = IF regions = <<>> THEN invoked \cup {"ec2.describe_regions"}
                        ELSE invoked
          /\ faultLog' = IF f = NoFault THEN faultLog
                         ELSE faultLog \cup {[call |-> CallNo, region |-> None, vpc |-> NoArg,
                                              site |-> f.site, item |-> f.item,
                                              kind |-> f.kind,
                                              escaped |-> f.kind # "ClientError"]}
          /\ failed' = {}
          /\ IF f = NoFault
             THEN /\ todo' = IF regions = <<>> THEN DiscoveredRegions ELSE regions
                  /\ cur' = [regions |-> todo',
                             discovery |-> IF regions = <<>> THEN "ok" ELSE "none"]
                  /\ pc' = "regions"
                  /\ UNCHANGED returned
             ELSE /\ returned' = Append(returned,
                        [status |-> IF f.kind = "ClientError" THEN "returned" ELSE "raised",
                         regions |-> <<>>, discovery |-> f.kind, failed |-> {},
                         keys |-> {}, snap |-> EmptyDict])
                  /\ UNCHANGED <<todo, cur, pc>>
    /\ UNCHANGED <<excluded, hierarchy, region, vpcs, db_subnet_groups, prov, built, pg>>

\* _build_region_hierarchy(region), lines before the loop over the VPCs
RegionStart ==
    /\ pc = "regions"
    /\ todo # <<>>
    /\ \E f \in SitesOf({"boto3.client", "ec2.describe_vpcs", "rds.describe_db_subnet_groups"}) :
          LET res == StartRegion(Head(todo), excluded, prov, f) IN
          /\ Injected(f, res)
          /\ faultsLeft' = Spent(f)
          /\ faultLog' = Logged(f, res, NoArg)
          /\ invoked' = invoked \cup Methods(res.calls)
          /\ built' = {}
          /\ IF res.raised
             THEN /\ failed' = failed \cup {Head(todo)}
                  /\ todo' = AfterFailure(Tail(todo))
                  /\ UNCHANGED <<pc, region, vpcs, db_subnet_groups>>
             ELSE /\ region' = Head(todo)
                  /\ vpcs' = res.val.vpcs
                  /\ db_subnet_groups' = res.val.db_subnet_groups
                  /\ pc' = "vpcs"
                  /\ UNCHANGED <<failed, todo>>
    /\ UNCHANGED <<excluded, hierarchy, prov, callsLeft, cur, returned, pg>>

\* One iteration of the loop over the VPCs
VpcStep ==
    /\ pc = "vpcs"
    /\ vpcs # <<>>
    /\ \E f \in SitesOf(ListSites \cup {"ec2.describe_volumes", "efs.describe_mount_targets"}) :
          LET vpc == Head(vpcs)
              res == BuildVpc(region, vpc, db_subnet_groups, excluded, prov, f)
          IN
          /\ Injected(f, res)
          /\ faultsLeft' = Spent(f)
          /\ faultLog' = Logged(f, res, vpc.VpcId)
          /\ invoked' = invoked \cup Methods(res.calls)
          /\ IF res.raised
             THEN /\ failed' = failed \cup {region}
                  /\ todo' = AfterFailure(Tail(todo))
                  /\ pc' = "regions"
                  /\ UNCHANGED <<hierarchy, vpcs, built>>
             ELSE /\ hierarchy' = Put(hierarchy, region,
                                      Put(HGet(hierarchy, region), vpc.VpcId, res.val))
                  /\ vpcs' = Tail(vpcs)
                  /\ built' = built \cup {vpc.VpcId}
                  /\ UNCHANGED <<failed, todo, pc>>
    /\ UNCHANGED <<excluded, region, db_subnet_groups, prov, callsLeft, cur, returned, pg>>

\* The region-wide resources, after the last VPC; the region is then done.
RegionWide ==
    /\ pc = "vpcs"
    /\ vpcs = <<>>
    /\ \E f \in SitesOf({"dynamodb.list_tables", "dynamodb.describe_table"}) :
          LET res == IF Wanted("dynamodb", excluded) THEN GetDynamodbTables(region, f)
                     ELSE NotRun
          IN
          /\ Injected(f, res)
          /\ faultsLeft' = Spent(f)
          /\ faultLog' = Logged(f, res, "region_wide")
          /\ invoked' = invoked \cup Methods(res.calls)
          /\ IF res.raised
             THEN /\ failed' = failed \cup {region}
                  /\ todo' = AfterFailure(Tail(todo))
                  /\ UNCHANGED hierarchy
             ELSE /\ hierarchy' =
                        IF Wanted("dynamodb", excluded)
                        THEN Put(hierarchy, region,
                                 Put(HGet(hierarchy, region), "region_wide",
                                     [dynamodb_tables |-> res.val]))
                        ELSE hierarchy
                  /\ todo' = Tail(todo)
                  /\ UNCHANGED failed
    /\ pc' = "regions"
    /\ UNCHANGED <<excluded, region, vpcs, db_subnet_groups, prov, callsLeft, built, cur,
                   returned, pg>>

\* return dict(self.hierarchy): a new outer dict whose values are the
\* builder's own per-region dicts.
Return ==
    /\ pc = "regions"
    /\ todo = <<>>
    /\ returned' = Append(returned, Finished("returned"))
    /\ pc' = "idle"
    /\ UNCHANGED <<excluded, hierarchy, todo, region, vpcs, db_subnet_groups, prov,
                   faultsLeft, callsLeft, invoked, faultLog, failed, built, cur, pg>>

\* The state after AWSResourceHierarchy(excluded_resources)
Fresh(excl, p, nfaults, ncalls) ==
    /\ excluded = excl
    /\ hierarchy = EmptyDict
    /\ pc = "idle"
    /\ todo = <<>>
    /\ region = None
    /\ vpcs = <<>>
    /\ db_subnet_groups = EmptyDict
    /\ prov = p
    /\ faultsLeft = nfaults
    /\ callsLeft = ncalls
    /\ invoked = {}
    /\ faultLog = {}
    /\ failed = {}
    /\ built = {}
    /\ cur = [regions |-> <<>>, discovery |-> "none"]
    /\ returned = <<>>

\* Three families of runs: any exclusion set with provider failures; any
\* provider data; a builder used for several calls.
Init ==
    /\ pg = PgIdle
    /\ \/ \E excl \in SUBSET EXCLUDABLE_RESOURCES : Fresh(excl, FixtureProv, MaxFaults, 1)
       \/ \E p \in ProvChoices : Fresh({}, p, 0, 1)
       \/ Fresh({}, FixtureProv, 0, MaxCalls)

Next == BuildHierarchy \/ RegionStart \/ VpcStep \/ RegionWide \/ Return

Spec == Init /\ [][Next]_vars


(* ------------------ _get_paginated_results on its own ----------------- *)
PageItems == {"a", "b"}

PageInputs ==
    {x \in [state : {"called"},
            pages : SeqsUpTo(SeqsUpTo(PageItems, MaxPageLen), MaxPages) \ {<<>>},
            failAt : 0..MaxPages,
            kind : Kinds] :
        /\ x.failAt <= Len(x.pages)
        /\ x.failAt = 0 => x.kind = "ClientError"}

\* One call of _get_paginated_results on the drawn pages
Paginate ==
    /\ pg.state = "called"
    /\ LET res == GetPaginatedResults(pg.pages, pg.failAt, pg.kind) IN
       pg' = [state |-> IF res.raised THEN "raised" ELSE "returned",
              pages |-> pg.pages, failAt |-> pg.failAt, kind |-> pg.kind,
              result |-> res.val]
    /\ UNCHANGED <<excluded, hierarchy, pc, todo, region, vpcs, db_subnet_groups, prov,
                   faultsLeft, callsLeft, invoked, faultLog, failed, built, cur, returned>>

InitPage == pg \in PageInputs /\ Fresh({}, FixtureProv, 0, 0)

NextPage == Paginate

SpecPage == InitPage /\ [][NextPage]_vars

(* ------------------------------ properties ---------------------------- *)
RunningCall == pc # "idle"

\* The failures injected in call i, and the regions they were injected in
FaultsOf(i) == {f \in faultLog : f.call = i}
FaultedRegions(i) == {f.region : f \in FaultsOf(i)}

FaultAt(r, v, site, item) ==
    \E f \in FaultsOf(CallNo) :
        f.region = r /\ f.vpc = v /\ f.site = site /\ f.item = item

VpcKeys(r) == (DOMAIN hierarchy[r]) \ {"region_wide"}

Count(x, s) == Cardinality({i \in DOMAIN s : s[i] = x})

\* What building region r gives when no provider call fails
RegionRef(r, excl, p) ==
    LET ids == {ProvVpcs(r)[i].VpcId : i \in DOMAIN ProvVpcs(r)}
        wide == IF "dynamodb" \in excl THEN {} ELSE {"region_wide"}
    IN [k \in ids \cup wide |->
          IF k = "region_wide"
          THEN [dynamodb_tables |-> GetDynamodbTables(r, NoFault).val]
          ELSE BuildVpc(r, [VpcId |-> k], DictOfGroups(ProvSubnetGroups(r, p)),
                        excl, p, NoFault).val]

\* C1: for every excluded category, none of its provider methods was ever
\* called, its key is in no VPC's resource bundle, and (for dynamodb) no
\* region has a region-wide bucket.
C1_ExcludedNeverFetchedNorRecorded ==
    \A c \in excluded :
        /\ CategoryMethods(c) \cap invoked = {}
        /\ \A r \in DOMAIN hierarchy : \A k \in DOMAIN hierarchy[r] :
              IF k = "region_wide"
              THEN c # "dynamodb" /\ CategoryKey(c) \notin DOMAIN hierarchy[r][k]
              ELSE CategoryKey(c) \notin DOMAIN hierarchy[r][k].resources

\* The spec's scenario: exclusion {fsx, redshift}, a build of r1 returned;
\* the bundle of v1 has exactly the three other keys and i1 two volumes.
C1_Witness ==
    /\ excluded = {"fsx", "redshift"}
    /\ returned # <<>>
    /\ returned[1].status = "returned"
    /\ "r1" \in DOMAIN hierarchy
    /\ "v1" \in DOMAIN hierarchy["r1"]
    /\ DOMAIN hierarchy["r1"]["v1"].resources
          = {"ec2_instances", "rds_instances", "efs_filesystems"}
    /\ Len(hierarchy["r1"]["v1"].resources.ec2_instances[1].ebs_volumes) = 2
    /\ "region_wide" \in DOMAIN hierarchy["r1"]

\* C2: build_hierarchy over a list of regions never raises, and every
\* region of the list in which no provider call failed has, in the result,
\* the entries it has when built alone without failure, whatever happened
\* in the other regions.
C2_RegionFailureDoesNotAbort ==
    \A i \in DOMAIN returned :
        LET ret == returned[i] IN
        /\ ret.status = "raised" => ret.discovery = "Exception"
        /\ ret.status = "returned" =>
              \A r \in Range(ret.regions) \ FaultedRegions(i) :
                  HGet(ret.snap, r) = RegionRef(r, excluded, prov)

\* r1 failed and r2, which came after it, is in the result
C2_Witness ==
    \E i \in DOMAIN returned :
        /\ returned[i].status = "returned"
        /\ returned[i].regions = <<"r1", "r2">>
        /\ returned[i].failed = {"r1"}
        /\ "r2" \in returned[i].keys
        /\ "r2" \notin FaultedRegions(i)

\* C3 (as claimed): a region whose build ended in an except clause is not
\* a key of the Inventory the call returns (first call of a builder).
C3_FailedRegionOmitted ==
    returned # <<>> =>
        (returned[1].status = "returned" =>
            \A r \in returned[1].failed : r \notin returned[1].keys)

\* C4 (as claimed): when the region discovery fails, build_hierarchy
\* returns an empty Inventory and does not raise.
C4_DiscoveryFailureGivesEmpty ==
    \A i \in DOMAIN returned :
        returned[i].discovery \in Kinds =>
            returned[i].status = "returned" /\ returned[i].keys = {}

\* C5 (as claimed): a paginated listing that returns gives the items of all
\* pages in order, or, when the fetch of page k failed, the items of the
\* pages 1..k-1.
C5_TruncatedNotDiscarded ==
    pg.state = "returned" =>
        pg.result = IF pg.failAt = 0 THEN Flatten(pg.pages)
                    ELSE Flatten(SubSeq(pg.pages, 1, pg.failAt - 1))

\* The VPC a subnet-group name maps to in the provider's list (None: no
\* group of that name)
ExpectedVpc(groups, name) ==
    LET idx == {i \in DOMAIN groups : groups[i].DBSubnetGroupName = name} IN
    IF idx = {} THEN None
    ELSE groups[CHOOSE i \in idx : \A j \in idx : j <= i].VpcId

\* C6: in the region being built, the table is the one fetched at the start
\* of the region, and an RDS instance or cluster the provider returned is in
\* the rds_instances bundle of VPC V iff its subnet-group name maps to V in
\* that table.
C6_RdsMembership ==
    (RunningCall /\ "rds" \notin excluded /\ built # {}) =>
        LET groups == IF FaultAt(region, NoArg, "rds.describe_db_subnet_groups", NoArg)
                      THEN <<>> ELSE ProvSubnetGroups(region, prov)
        IN
        /\ DOMAIN db_subnet_groups = {groups[i].DBSubnetGroupName : i \in DOMAIN groups}
        /\ \A n \in DOMAIN db_subnet_groups : db_subnet_groups[n] = ExpectedVpc(groups, n)
        /\ \A v \in built :
              LET bundle == hierarchy[region][v].resources.rds_instances
                  dbs == IF FaultAt(region, v, "rds.describe_db_instances", NoArg)
                         THEN {} ELSE Range(ProvDbInstances(region, prov))
                  cls == IF FaultAt(region, v, "rds.describe_db_clusters", NoArg)
                         THEN {} ELSE Range(ProvDbClusters(region))
              IN
              /\ Range(bundle.db_instances) =
                    {[db_instance_id |-> db.DBInstanceIdentifier] :
                        db \in {d \in dbs : ExpectedVpc(groups, d.DBSubnetGroupName) = v}}
              /\ Range(bundle.clusters) =
                    {[cluster_id |-> cl.DBClusterIdentifier] :
                        cl \in {d \in cls : ExpectedVpc(groups, d.DBSubnetGroup) = v}}

\* Both VPCs of r1 built: db1 is in the bundle of v1 only, c1 in that of v2
\* only.
C6_Witness ==
    /\ RunningCall /\ region = "r1" /\ built = {"v1", "v2"}
    /\ "rds" \notin excluded
    /\ Len(hierarchy["r1"]["v1"].resources.rds_instances.db_instances) = 1
    /\ Len(hierarchy["r1"]["v2"].resources.rds_instances.db_instances) = 0
    /\ Len(hierarchy["r1"]["v1"].resources.rds_instances.clusters) = 0
    /\ Len(hierarchy["r1"]["v2"].resources.rds_instances.clusters) = 1

\* C7: an EFS file system is in the efs_filesystems list of VPC V once if
\* one of its mount targets is in V, and not at all otherwise; the number
\* and the order of its mount targets do not matter.
C7_EfsOncePerVpc ==
    (RunningCall /\ "efs" \notin excluded) =>
        \A v \in built : \A fs \in Range(ProvEfs(region)) :
            LET mts == IF \/ FaultAt(region, v, "efs.describe_file_systems", NoArg)
                          \/ FaultAt(region, v, "efs.describe_mount_targets", fs)
                       THEN <<>> ELSE ProvMountTargets(fs, prov)
            IN Count([file_system_id |-> fs],
                     hierarchy[region][v].resources.efs_filesystems)
                  = IF v \in Range(mts) THEN 1 ELSE 0

\* fs1 has two mount targets in v1 and is once in the list of v1
C7_Witness ==
    /\ RunningCall /\ region = "r1" /\ "v1" \in built
    /\ prov.mounts = <<"v1", "v1">>
    /\ Count([file_system_id |-> "fs1"],
             hierarchy["r1"]["v1"].resources.efs_filesystems) = 1

\* The resource identifiers of one category in a VPC entry
IdsOf(entry, key) ==
    IF key \notin DOMAIN entry.resources THEN {}
    ELSE LET b == entry.resources[key] IN
         CASE key = "ec2_instances" -> {b[i].instance_id : i \in DOMAIN b}
           [] key = "rds_instances" ->
                 {b.db_instances[i].db_instance_id : i \in DOMAIN b.db_instances}
                 \cup {b.clusters[i].cluster_id : i \in DOMAIN b.clusters}
           [] key = "efs_filesystems" -> {b[i].file_system_id : i \in DOMAIN b}
           [] key = "fsx_filesystems" -> {b[i].file_system_id : i \in DOMAIN b}
           [] key = "redshift_clusters" ->
                 {b.clusters[i].cluster_identifier : i \in DOMAIN b.clusters}

BundleKeys == {"ec2_instances", "rds_instances", "efs_filesystems", "fsx_filesystems",
               "redshift_clusters"}

Shared(r, key) ==
    {x \in UNION {IdsOf(hierarchy[r][v], key) : v \in VpcKeys(r)} :
        \E v, w \in VpcKeys(r) :
            v # w /\ x \in IdsOf(hierarchy[r][v], key) /\ x \in IdsOf(hierarchy[r][w], key)}

\* C8 (as claimed): no resource identifier is in the bundles of two VPCs of
\* a region.
C8_AtMostOneVpc ==
    \A r \in DOMAIN hierarchy : \A key \in BundleKeys : Shared(r, key) = {}

\* C8 (amended): no EC2 instance, RDS instance or cluster, FSx file system
\* or Redshift cluster is in the bundles of two VPCs of a region; an EFS
\* file system is in the bundles of two VPCs only if it has a mount target
\* in each of them.
C8_AtMostOneVpcButEfs ==
    \A r \in DOMAIN hierarchy :
        /\ \A key \in BundleKeys \ {"efs_filesystems"} : Shared(r, key) = {}
        /\ \A v \in VpcKeys(r) : \A fs \in IdsOf(hierarchy[r][v], "efs_filesystems") :
              v \in Range(ProvMountTargets(fs, prov))

\* Both VPCs of r1 recorded with every category: fs1 is in both bundles
C8_Witness ==
    /\ "r1" \in DOMAIN hierarchy
    /\ VpcKeys("r1") = {"v1", "v2"}
    /\ excluded = {}
    /\ "fs1" \in Shared("r1", "efs_filesystems")
    /\ IdsOf(hierarchy["r1"]["v1"], "fsx_filesystems") = {"fx1"}
    /\ IdsOf(hierarchy["r1"]["v2"], "redshift_clusters") = {"rs1"}

ItemLookups == {"ec2.describe_volumes", "efs.describe_mount_targets",
                "dynamodb.describe_table"}

Without(s, field, x) == SelectSeq(s, LAMBDA e : e[field] # x)

\* C9 (as claimed): a ClientError of one volume's, one table's or one file
\* system's sub-lookup is caught at that call; the volume or table is still
\* recorded, and every other item is recorded as when nothing fails.
C9_SubLookupFailureDegrades ==
    RunningCall =>
        \A f \in FaultsOf(CallNo) :
            (f.site \in ItemLookups /\ f.kind = "ClientError") =>
                /\ ~f.escaped
                /\ f.site = "ec2.describe_volumes" =>
                      LET got == hierarchy[f.region][f.vpc].resources.ec2_instances
                          ref == GetEc2WithEbs(f.region, f.vpc, NoFault).val
                      IN /\ Len(got) = Len(ref)
                         /\ \A i \in DOMAIN got :
                               /\ Len(got[i].ebs_volumes) = Len(ref[i].ebs_volumes)
                               /\ \A k \in DOMAIN got[i].ebs_volumes :
                                     LET g == got[i].ebs_volumes[k] IN
                                     IF g.volume_id = f.item
                                     THEN g.volume_details = EmptyDict
                                     ELSE g = ref[i].ebs_volumes[k]
                /\ f.site = "dynamodb.describe_table" =>
                      LET got == hierarchy[f.region]["region_wide"].dynamodb_tables
                          ref == GetDynamodbTables(f.region, NoFault).val
                      IN /\ \E k \in DOMAIN got : got[k].table_name = f.item
                         /\ Without(got, "table_name", f.item)
                               = Without(ref, "table_name", f.item)
                /\ f.site = "efs.describe_mount_targets" =>
                      LET got == hierarchy[f.region][f.vpc].resources.efs_filesystems
                          ref == GetEfsResources(f.region, f.vpc, prov, NoFault).val
                      IN Without(got, "file_system_id", f.item)
                            = Without(ref, "file_system_id", f.item)

\* C10 (as claimed): the Inventory a call returned has only regions of that
\* call's own pass, and is the same ever after.
C10_FreshAndImmutable ==
    \A i \in DOMAIN returned :
        returned[i].status = "returned" =>
            /\ returned[i].keys \subseteq Range(returned[i].regions)
            /\ \A r \in returned[i].keys : hierarchy[r] = returned[i].snap[r]


(* ------------------- construction of the builder ---------------------- *)
\* Names a caller may pass as excluded resources: the enumeration, a name
\* outside it, and a name of it in another case.
ExclusionInputs == EXCLUDABLE_RESOURCES \cup {"s3", "EC2"}

\* str.lower() on the names above
Lower(name) == IF name = "EC2" THEN "ec2" ELSE name

\* AWSResourceHierarchy.__init__(excluded_resources): the names are stored
\* as a set; nothing is compared with EXCLUDABLE_RESOURCES and nothing raises.
Construct(excluded_resources) ==
    [raised |-> FALSE, excluded |-> excluded_resources]

\* The -x option of main: click.Choice(EXCLUDABLE_RESOURCES,
\* case_sensitive=False) gives the enumeration's spelling of each name, or
\* refuses the command line.
ClickChoice(exclude) ==
    IF \A n \in exclude : Lower(n) \in EXCLUDABLE_RESOURCES
    THEN [raised |-> FALSE, excluded |-> {Lower(n) : n \in exclude}]
    ELSE [raised |-> TRUE, excluded |-> {}]

\* No builder: the construction, or the command line, was refused.
NoBuilder ==
    /\ excluded = {}
    /\ hierarchy = EmptyDict
    /\ pc = "rejected"
    /\ todo = <<>>
    /\ region = None
    /\ vpcs = <<>>
    /\ db_subnet_groups = EmptyDict
    /\ prov = FixtureProv
    /\ faultsLeft = 0
    /\ callsLeft = 0
    /\ invoked = {}
    /\ faultLog = {}
    /\ failed = {}
    /\ built = {}
    /\ cur = [regions |-> <<>>, discovery |-> "none"]
    /\ returned = <<>>

Built(b) == IF b.raised THEN NoBuilder ELSE Fresh(b.excluded, FixtureProv, 0, 1)

\* A builder constructed by a caller with any names, or by main from the
\* -x options of the command line.
InitCtor ==
    /\ pg = PgIdle
    /\ \E names \in SUBSET ExclusionInputs :
          \/ Built(Construct(names))
          \/ LET opt == ClickChoice(names) IN
             IF opt.raised THEN NoBuilder ELSE Built(Construct(opt.excluded))

SpecCtor == InitCtor /\ [][Next]_vars

\* C11 (as claimed): a builder whose exclusion set has a name outside the
\* enumeration is refused at construction, so no build ever returns on a
\* builder that holds such a name.
C11_UnknownNameRejected ==
    returned # <<>> => excluded \subseteq EXCLUDABLE_RESOURCES

====
